---- MODULE Spec2Model ----
(***************************************************************************)
(* Workflow Agent (src/main.py): a FastAPI service that executes submitted *)
(* code against one process-wide mapping (GLOBAL_CONTEXT) and keeps one    *)
(* PetexServer COM session alive through get_srv().                        *)
(*                                                                         *)
(* Every handler is an `async def` run by one event loop: a handler can be *)
(* suspended only at `await request.json()`; the rest of its body runs     *)
(* without interruption.  The model keeps that scheduling explicit: each   *)
(* request slot has a program counter, and the variable `running` names    *)
(* the slot that holds the event loop.                                     *)
(***************************************************************************)
EXTENDS Integers, Sequences, FiniteSets, TLC

\* ------------------------------------------------------------------ bounds
NumTasks == 2
MaxHandles == 2
MaxCells == 4

Tasks == 1..NumTasks

\* ------------------------------------------------------------------ values
\* A Python value: its type name, its str() text as a sequence of characters,
\* and, for a PetexServer instance, the identity of the session object.
Val(t, r, h) == [type |-> t, repr |-> r, h |-> h]

IntVal(r) == Val("int", r, 0)
FloatVal(r) == Val("float", r, 0)
BoolVal(b) == Val("bool", IF b THEN <<"T", "r", "u", "e">> ELSE <<"F", "a", "l", "s", "e">>, 0)
StrVal(r) == Val("str", r, 0)
ModuleVal(r) == Val("module", r, 0)
ClassVal(r) == Val("type", r, 0)
HandleVal(h) == Val("PetexServer", <<"s", "r", "v">>, h)
\* the dict exec() stores under "__builtins__"
BuiltinsVal == Val("dict", <<"{", "}">>, 0)
\* an instance of a user-defined class whose __str__ raises
BadVal == Val("Bad", <<>>, 0)
NoVal == Val("NoneType", <<"N", "o", "n", "e">>, 0)

I1 == IntVal(<<"1">>)
I2 == IntVal(<<"2">>)
I99 == IntVal(<<"9", "9">>)

\* data.get("name") of a request body that carries no name is None; the
\* mapping key None is written NoneName, every other key is a str.
NoneName == "<None>"
IsStrKey(k) == k # NoneName

\* ------------------------------------------------- the shared mapping
\* GLOBAL_CONTEXT at import time
InitContext ==
    [k \in {"gap", "resolve", "PetexServer"} |->
        IF k = "PetexServer" THEN ClassVal(<<"P">>) ELSE ModuleVal(<<k>>)]

Reserved == {"gap", "resolve", "PetexServer", "srv"}

\* k.startswith("__") for the keys of the model
StartsDunder(k) == k \in {"__builtins__"}

\* callable(v): functions and classes
Callable(v) == v.type \in {"function", "type"}
\* isinstance(v, type)
IsType(v) == v.type = "type"

\* str(v) raises
StrRaises(v) == v.type = "Bad"

\* d[k] = v  /  d.update(e)  /  del d[k]
Put(d, k, v) == [x \in (DOMAIN d) \cup {k} |-> IF x = k THEN v ELSE d[x]]
Update(d, e) == [x \in (DOMAIN d) \cup (DOMAIN e) |-> IF x \in DOMAIN e THEN e[x] ELSE d[x]]
Del(d, k) == [x \in (DOMAIN d) \ {k} |-> d[x]]
EmptyDict == [x \in {} |-> NoVal]

\* ------------------------------------------------------------ text helpers
Digits == {"0", "1", "2", "3", "4", "5", "6", "7", "8", "9"}

DigitVal(c) ==
    CASE c = "0" -> 0 [] c = "1" -> 1 [] c = "2" -> 2 [] c = "3" -> 3 [] c = "4" -> 4
      [] c = "5" -> 5 [] c = "6" -> 6 [] c = "7" -> 7 [] c = "8" -> 8 [] OTHER -> 9

DigitChar(n) == <<"0", "1", "2", "3", "4", "5", "6", "7", "8", "9">>[n + 1]

RECURSIVE ToNat(_)
ToNat(s) == IF Len(s) = 0 THEN 0 ELSE 10 * ToNat(SubSeq(s, 1, Len(s) - 1)) + DigitVal(s[Len(s)])

RECURSIVE ToText(_)
ToText(n) == IF n < 10 THEN <<DigitChar(n)>> ELSE ToText(n \div 10) \o <<DigitChar(n % 10)>>

\* str.lower() on the letters the model's texts use
LowerChar(c) ==
    CASE c = "Y" -> "y" [] c = "E" -> "e" [] c = "S" -> "s" [] c = "T" -> "t"
      [] c = "R" -> "r" [] c = "U" -> "u" [] OTHER -> c

Lower(s) == [i \in 1..Len(s) |-> LowerChar(s[i])]

\* s[:n]
Take(s, n) == SubSeq(s, 1, IF Len(s) < n THEN Len(s) ELSE n)

\* position of the first "." of s, 0 when there is none
DotAt(s) == IF \E i \in 1..Len(s) : s[i] = "." THEN CHOOSE i \in 1..Len(s) : s[i] = "." /\ \A j \in 1..(i - 1) : s[j] # "." ELSE 0

\* ---------------------------------------------------- set_var's coercion
\* int(value) / float(value) accept the decimal texts below and raise
\* ValueError on any other text of the model.
IsIntText(s) == Len(s) > 0 /\ \A i \in 1..Len(s) : s[i] \in Digits

IsFloatText(s) ==
    \/ IsIntText(s)
    \/ /\ DotAt(s) > 0
       /\ IsIntText(SubSeq(s, 1, DotAt(s) - 1))
       /\ IsIntText(SubSeq(s, DotAt(s) + 1, Len(s)))

\* str(float(s)) of an accepted text
FloatRepr(s) == IF DotAt(s) = 0 THEN ToText(ToNat(s)) \o <<".", "0">> ELSE ToText(ToNat(SubSeq(s, 1, DotAt(s) - 1))) \o SubSeq(s, DotAt(s), Len(s))

Truthy == {<<"1">>, <<"t", "r", "u", "e">>, <<"y", "e", "s">>}

\* the try block of set_var up to the assignment: the coerced value, or the
\* fact that the conversion raised
Coerce(raw, vtype) ==
    CASE vtype = "int" ->
            IF IsIntText(raw) THEN [ok |-> TRUE, val |-> IntVal(ToText(ToNat(raw)))]
            ELSE [ok |-> FALSE, val |-> NoVal]
      [] vtype = "float" ->
            IF IsFloatText(raw) THEN [ok |-> TRUE, val |-> FloatVal(FloatRepr(raw))]
            ELSE [ok |-> FALSE, val |-> NoVal]
      [] vtype = "bool" -> [ok |-> TRUE, val |-> BoolVal(Lower(raw) \in Truthy)]
      [] OTHER -> [ok |-> TRUE, val |-> StrVal(raw)]

\* ------------------------------------------------------------ snapshots
PreviewLimit == 80
PreviewKeep == 77
RunPreviewLimit == 50

\* the preview list_variables gives a str() text
Preview(s) == IF Len(s) > PreviewLimit THEN SubSeq(s, 1, PreviewKeep) \o <<".", ".", ".">> ELSE s

\* (variant) a filter that forgets the reserved names
UserKeysNoReserved(d) ==
    {k \in DOMAIN d : IsStrKey(k) /\ ~StartsDunder(k) /\ ~Callable(d[k]) /\ ~IsType(d[k])}

\* the keys a snapshot keeps (the same filter in run_cell, run_all and
\* list_variables)
UserKeys(d) ==
    {k \in DOMAIN d : IsStrKey(k) /\ ~StartsDunder(k) /\ k \notin Reserved
                       /\ ~Callable(d[k]) /\ ~IsType(d[k])}

\* k.startswith("__") on a key that is no str raises AttributeError
KeyRaises(d) == \E k \in DOMAIN d : ~IsStrKey(k)

ListEntry(v) ==
    IF StrRaises(v) THEN [type |-> "unknown", preview |-> <<>>]
    ELSE [type |-> v.type, preview |-> Preview(v.repr)]

\* list_variables: the loop; it raises outside its try block on a non-str key
ListRaises(d) == KeyRaises(d)
ListVars(d) == [k \in UserKeys(d) |-> ListEntry(d[k])]

\* vars_snapshot of run_cell / run_all: a dict comprehension with no try
RunEntry(v) == [type |-> v.type, preview |-> Take(v.repr, RunPreviewLimit)]
SnapshotRaises(d) == KeyRaises(d) \/ \E k \in UserKeys(d) : StrRaises(d[k])
Snapshot(d) == [k \in UserKeys(d) |-> RunEntry(d[k])]

\* ------------------------------------------------------- submitted code
\* A snippet is a sequence of statements; exec() runs them in order against
\* the mapping and stops at the first one that raises.
\*   assign  n = <value>          incr   n = src + 1
\*   raise   raise <n>            echo   print(...)
Stmt(k, n, src, v) == [k |-> k, n |-> n, src |-> src, v |-> v]
Assign(n, v) == Stmt("assign", n, "", v)
Incr(n, src) == Stmt("incr", n, src, NoVal)
Raise(kind) == Stmt("raise", kind, "", NoVal)
Echo == Stmt("echo", "", "", NoVal)

\* v + 1: int, bool and float add; any other operand raises TypeError
CanAdd(v) == v.type \in {"int", "bool", "float"}
Plus1(v) ==
    CASE v.type = "int" -> IntVal(ToText(ToNat(v.repr) + 1))
      [] v.type = "bool" -> IF v = BoolVal(TRUE) THEN I2 ELSE I1
      [] OTHER -> FloatVal(ToText(ToNat(SubSeq(v.repr, 1, DotAt(v.repr) - 1)) + 1)
                            \o SubSeq(v.repr, DotAt(v.repr), Len(v.repr)))

\* one statement: the mapping after it, what it wrote to stdout, and the
\* kind of the exception it raised ("" when it raised none)
ExecStmt(d, s) ==
    CASE s.k = "assign" -> [ctx |-> Put(d, s.n, s.v), out |-> 0, exc |-> ""]
      [] s.k = "incr" ->
            IF s.src \notin DOMAIN d THEN [ctx |-> d, out |-> 0, exc |-> "NameError"]
            ELSE IF ~CanAdd(d[s.src]) THEN [ctx |-> d, out |-> 0, exc |-> "TypeError"]
            ELSE [ctx |-> Put(d, s.n, Plus1(d[s.src])), out |-> 0, exc |-> ""]
      [] s.k = "raise" -> [ctx |-> d, out |-> 0, exc |-> s.n]
      [] OTHER -> [ctx |-> d, out |-> 1, exc |-> ""]

\* the statements of `code` from the i-th on; `asg` collects the bindings the
\* statements have assigned
RECURSIVE ExecFrom(_, _, _, _, _)
ExecFrom(d, code, i, out, asg) ==
    IF i > Len(code) THEN [ctx |-> d, out |-> out, exc |-> "", asg |-> asg]
    ELSE LET r == ExecStmt(d, code[i])
         IN  IF r.exc # "" THEN [ctx |-> r.ctx, out |-> out + r.out, exc |-> r.exc, asg |-> asg]
             ELSE ExecFrom(r.ctx, code, i + 1, out + r.out,
                           IF code[i].k \in {"assign", "incr"}
                           THEN Put(asg, code[i].n, r.ctx[code[i].n]) ELSE asg)

\* exec(code, GLOBAL_CONTEXT): exec first stores "__builtins__" in a globals
\* dict that lacks it
Exec(d, code, asg) ==
    ExecFrom(IF "__builtins__" \in DOMAIN d THEN d ELSE Put(d, "__builtins__", BuiltinsVal),
             code, 1, 0, asg)

\* `except Exception` catches every exception class but those deriving from
\* BaseException alone
IsException(kind) == kind \notin {"SystemExit", "KeyboardInterrupt"}

\* ------------------------------------------------------------------ state
VARIABLES
    srv_instance,   \* _srv_instance: 0 is None, h > 0 the h-th PetexServer object
    handles,        \* how many PetexServer objects have been constructed
    closed,         \* the objects on which close() has been called
    probeFailed,    \* the objects whose liveness probe has raised
    enterFailed,    \* the objects whose __enter__() has raised
    reconLog,       \* per successful reconstruction, the broken object it replaced
    ctx,            \* GLOBAL_CONTEXT
    pc,             \* per request slot, the handler's position
    fr,             \* per request slot, the handler's locals and its response
    running,        \* the slot that holds the event loop, 0 when it is free
    setlog,         \* the names set_var stored and delete_var has not been asked to delete since
    lastReset       \* whether the request answered last was a reset_context, and the keys it left

vars == <<srv_instance, handles, closed, probeFailed, enterFailed, reconLog, ctx, pc, fr, running, setlog, lastReset>>
sess == <<srv_instance, handles, closed, probeFailed, enterFailed, reconLog>>

\* a JSONResponse, or status 0 while the handler has produced none
Resp(status, kind, out, err, variables, name, value) ==
    [status |-> status, kind |-> kind, stdout |-> out, stderr |-> err,
     variables |-> variables, name |-> name, value |-> value]
NoResp == Resp(0, "", 0, <<>>, EmptyDict, "", NoVal)

\* all_exceptions_handler: {"error": str(exc)} with status 500
Error500 == Resp(500, "error", 0, <<>>, EmptyDict, "", NoVal)
\* an exception that is no Exception leaves the handler and the application:
\* the request ends without a response of the application
Aborted == Resp(500, "aborted", 0, <<>>, EmptyDict, "", NoVal)

\* a handler's frame
\*   op      the handler                    cells  the snippets exec() has run
\*   broken  the object get_srv saw fail    out    writes to stdout_buf
\*   err     the lines of stderr_buf        exc    what the submitted code raised
\*   asg     the bindings the submitted code has assigned
\*   seen    the object whose probe passed in this call of get_srv
\*   before  the keys of the mapping when reset_context cleared it
\*   req     the body of a set_var request (name, value, type)
NewFrame(op) ==
    [op |-> op, seen |-> 0, broken |-> 0, cells |-> 0, out |-> 0, err |-> <<>>, exc |-> "",
     asg |-> EmptyDict, before |-> {}, req |-> [name |-> "", raw |-> <<>>, vtype |-> ""],
     resp |-> NoResp]

Handlers == {"run_cell", "run_all", "list_variables", "reset_context", "delete_var", "set_var"}
RunOps == {"run_cell", "run_all"}

\* run_cell, run_all, delete_var and set_var begin with `await request.json()`
Entry(op) ==
    CASE op = "list_variables" -> "list"
      [] op = "reset_context" -> "clear"
      [] OTHER -> "json"

\* (variant) a handler that could be suspended at any of its positions, as if
\* get_srv, exec and the mapping's updates were awaited
SuspendsAnywhere(l) == TRUE

\* The positions at which a handler gives the event loop away: before it is
\* called and at its `await request.json()`.  ("done" is the handler's return
\* statement: the response is observed there and the slot is freed next.)
Suspends(l) == l \in {"idle", "json"}

CanRun(t) == running \in {0, t}
Go(t, l) ==
    /\ pc' = [pc EXCEPT ![t] = l]
    /\ running' = IF Suspends(l) THEN 0 ELSE t

\* the request answered last was no reset_context (or none was answered yet)
NoReset == [is |-> FALSE, keys |-> {}]

Init ==
    /\ srv_instance = 0
    /\ handles = 0
    /\ closed = {}
    /\ probeFailed = {}
    /\ enterFailed = {}
    /\ reconLog = <<>>
    /\ ctx = InitContext
    /\ pc = [t \in Tasks |-> "idle"]
    /\ fr = [t \in Tasks |-> NewFrame("")]
    /\ running = 0
    /\ setlog = {}
    /\ lastReset = NoReset

\* ---------------------------------------------------------------- requests
\* a request for one of `ops` reaches the service: its handler runs up to its
\* first await
Arrive(t, ops) ==
    /\ pc[t] = "idle"
    /\ CanRun(t)
    /\ \E op \in ops :
        /\ fr' = [fr EXCEPT ![t] = NewFrame(op)]
        /\ Go(t, Entry(op))
    /\ UNCHANGED <<sess, ctx, setlog, lastReset>>

\* the client has its response
Finish(t) ==
    /\ pc[t] = "done"
    /\ CanRun(t)
    /\ fr' = [fr EXCEPT ![t] = NewFrame("")]
    /\ lastReset' = IF fr[t].op = "reset_context" THEN [is |-> TRUE, keys |-> DOMAIN ctx]
                     ELSE NoReset
    /\ Go(t, "idle")
    /\ UNCHANGED <<sess, ctx, setlog>>

\* ----------------------------------------------------------------- get_srv
\* PetexServer() can succeed while the model has objects left
ConstructOuts(outs) == {o \in outs : o = "ok" => handles < MaxHandles}

\* (variant) a get_srv that reconnects on every call, the probe passing or not
ProbeOkRebuilds(t) ==
    /\ Go(t, "return")
    /\ fr' = [fr EXCEPT ![t].seen = srv_instance]
    /\ IF handles < MaxHandles
       THEN handles' = handles + 1 /\ srv_instance' = handles + 1
       ELSE UNCHANGED <<handles, srv_instance>>
    /\ UNCHANGED probeFailed

\* the probe passed: get_srv goes to its return statement
ProbeOk(t) ==
    /\ Go(t, "return")
    /\ fr' = [fr EXCEPT ![t].seen = srv_instance]
    /\ UNCHANGED <<handles, srv_instance, probeFailed>>

\* the try block: construct when there is no instance, probe it otherwise
GsTry(t, outs) ==
    /\ pc[t] = "get_srv"
    /\ CanRun(t)
    /\ IF srv_instance = 0
       THEN \E o \in ConstructOuts(outs) :
              IF o = "ok"
              THEN /\ handles' = handles + 1
                   /\ srv_instance' = handles + 1
                   /\ Go(t, "enter")
                   /\ UNCHANGED <<probeFailed, fr>>
              ELSE /\ Go(t, "except")
                   /\ fr' = [fr EXCEPT ![t].broken = 0]
                   /\ UNCHANGED <<handles, srv_instance, probeFailed>>
       ELSE \E o \in outs :
              IF o = "ok"
              THEN ProbeOk(t)
              ELSE /\ probeFailed' = probeFailed \cup {srv_instance}
                   /\ fr' = [fr EXCEPT ![t].broken = srv_instance]
                   /\ Go(t, "except")
                   /\ UNCHANGED <<handles, srv_instance>>
    /\ UNCHANGED <<closed, enterFailed, reconLog, ctx, setlog, lastReset>>

\* _srv_instance.__enter__() of the try block
GsEnter(t, outs) ==
    /\ pc[t] = "enter"
    /\ CanRun(t)
    /\ \E o \in outs :
         IF o = "ok"
         THEN /\ Go(t, "return")
              /\ UNCHANGED <<enterFailed, fr>>
         ELSE /\ enterFailed' = enterFailed \cup {srv_instance}
              /\ fr' = [fr EXCEPT ![t].broken = srv_instance]
              /\ Go(t, "except")
    /\ UNCHANGED <<srv_instance, handles, closed, probeFailed, reconLog, ctx, setlog, lastReset>>

\* the except block's best-effort close: close() is called on the instance
\* if there is one, and whether it returns or raises the block goes on
GsExcept(t) ==
    /\ pc[t] = "except"
    /\ CanRun(t)
    /\ closed' = IF srv_instance # 0 THEN closed \cup {srv_instance} ELSE closed
    /\ Go(t, "recon")
    /\ UNCHANGED <<srv_instance, handles, probeFailed, enterFailed, reconLog, ctx, fr, setlog, lastReset>>

\* _srv_instance = PetexServer() of the except block; when it raises the
\* exception leaves get_srv
GsRecon(t, outs) ==
    /\ pc[t] = "recon"
    /\ CanRun(t)
    /\ \E o \in ConstructOuts(outs) :
         IF o = "ok"
         THEN /\ handles' = handles + 1
              /\ srv_instance' = handles + 1
              /\ reconLog' = IF fr[t].broken # 0 THEN Append(reconLog, fr[t].broken) ELSE reconLog
              /\ Go(t, "reenter")
         ELSE /\ Go(t, "raise")
              /\ UNCHANGED <<handles, srv_instance, reconLog>>
    /\ UNCHANGED <<closed, probeFailed, enterFailed, ctx, fr, setlog, lastReset>>

\* _srv_instance.__enter__() of the except block
GsReenter(t, outs) ==
    /\ pc[t] = "reenter"
    /\ CanRun(t)
    /\ \E o \in outs :
         IF o = "ok"
         THEN /\ Go(t, "return")
              /\ UNCHANGED enterFailed
         ELSE /\ enterFailed' = enterFailed \cup {srv_instance}
              /\ Go(t, "raise")
    /\ UNCHANGED <<srv_instance, handles, closed, probeFailed, reconLog, ctx, fr, setlog, lastReset>>

\* ------------------------------------------------------ run_cell, run_all
\* data = await request.json(); the buffers are created
RunJson(t) ==
    /\ pc[t] = "json"
    /\ fr[t].op \in RunOps
    /\ CanRun(t)
    /\ Go(t, "get_srv")
    /\ UNCHANGED <<sess, ctx, fr, setlog, lastReset>>

\* (variant) a run that binds srv only when the mapping has none
RunInstallKeeps(t) ==
    /\ pc[t] = "return"
    /\ fr[t].op \in RunOps
    /\ CanRun(t)
    /\ ctx' = IF "srv" \in DOMAIN ctx THEN ctx ELSE Put(ctx, "srv", HandleVal(srv_instance))
    /\ Go(t, "exec")
    /\ UNCHANGED <<sess, fr, setlog, lastReset>>

\* GLOBAL_CONTEXT["srv"] = get_srv(), when get_srv returns
RunInstall(t) ==
    /\ pc[t] = "return"
    /\ fr[t].op \in RunOps
    /\ CanRun(t)
    /\ ctx' = Put(ctx, "srv", HandleVal(srv_instance))
    /\ Go(t, "exec")
    /\ UNCHANGED <<sess, fr, setlog, lastReset>>

\* get_srv raised inside the try block: the handler's `except Exception`
\* writes the line to stderr_buf
RunNoSession(t) ==
    /\ pc[t] = "raise"
    /\ fr[t].op \in RunOps
    /\ CanRun(t)
    /\ fr' = [fr EXCEPT ![t].err = Append(@, "Exception")]
    /\ Go(t, "snapshot")
    /\ UNCHANGED <<sess, ctx, setlog, lastReset>>

\* whether the request has a snippet left: run_cell has one, run_all a list
\* of at most MaxCells
HasCell(t) == IF fr[t].op = "run_cell" THEN fr[t].cells = 0 ELSE fr[t].cells < MaxCells

\* exec(code, GLOBAL_CONTEXT) on the request's next snippet, one of `snippets`
RunExec(t, snippets) ==
    /\ pc[t] = "exec"
    /\ CanRun(t)
    /\ HasCell(t)
    /\ \E code \in snippets :
         LET r == Exec(ctx, code, fr[t].asg)
             f == [fr[t] EXCEPT !.cells = @ + 1, !.out = @ + r.out, !.asg = r.asg, !.exc = r.exc]
         IN  /\ ctx' = r.ctx
             /\ IF r.exc = ""
                THEN /\ fr' = [fr EXCEPT ![t] = f]
                     /\ Go(t, IF fr[t].op = "run_cell" THEN "snapshot" ELSE "exec")
                ELSE IF IsException(r.exc)
                THEN /\ fr' = [fr EXCEPT ![t] = [f EXCEPT !.err = Append(@, r.exc)]]
                     /\ Go(t, "snapshot")
                ELSE /\ fr' = [fr EXCEPT ![t] = [f EXCEPT !.resp = Aborted]]
                     /\ Go(t, "done")
    /\ UNCHANGED <<sess, setlog, lastReset>>

\* run_all's loop has reached the end of the list
RunAllEnd(t) ==
    /\ pc[t] = "exec"
    /\ fr[t].op = "run_all"
    /\ CanRun(t)
    /\ Go(t, "snapshot")
    /\ UNCHANGED <<sess, ctx, fr, setlog, lastReset>>

\* vars_snapshot and the response
RunSnapshot(t) ==
    /\ pc[t] = "snapshot"
    /\ CanRun(t)
    /\ fr' = [fr EXCEPT ![t].resp =
                IF SnapshotRaises(ctx) THEN Error500
                ELSE Resp(200, "run", fr[t].out, fr[t].err, Snapshot(ctx), "", NoVal)]
    /\ Go(t, "done")
    /\ UNCHANGED <<sess, ctx, setlog, lastReset>>

\* ---------------------------------------------------------- list_variables
ListVariables(t) ==
    /\ pc[t] = "list"
    /\ CanRun(t)
    /\ fr' = [fr EXCEPT ![t].resp =
                IF ListRaises(ctx) THEN Error500
                ELSE Resp(200, "list", 0, <<>>, ListVars(ctx), "", NoVal)]
    /\ Go(t, "done")
    /\ UNCHANGED <<sess, ctx, setlog, lastReset>>

\* ----------------------------------------------------------- reset_context
\* (variant) a reset that only overwrites the reserved bindings
ResetKeeps(t) ==
    /\ pc[t] = "clear"
    /\ CanRun(t)
    /\ fr' = [fr EXCEPT ![t].before = DOMAIN ctx]
    /\ Go(t, "get_srv")
    /\ UNCHANGED <<sess, ctx, setlog, lastReset>>

\* GLOBAL_CONTEXT.clear(); the argument of update() is evaluated next
ResetClear(t) ==
    /\ pc[t] = "clear"
    /\ CanRun(t)
    /\ ctx' = EmptyDict
    /\ fr' = [fr EXCEPT ![t].before = DOMAIN ctx]
    /\ Go(t, "get_srv")
    /\ UNCHANGED <<sess, setlog, lastReset>>

\* GLOBAL_CONTEXT.update({...}), when get_srv returns
ResetUpdate(t) ==
    /\ pc[t] = "return"
    /\ fr[t].op = "reset_context"
    /\ CanRun(t)
    /\ ctx' = Update(ctx, Put(InitContext, "srv", HandleVal(srv_instance)))
    /\ fr' = [fr EXCEPT ![t].resp = Resp(200, "reset", 0, <<>>, EmptyDict, "", NoVal)]
    /\ Go(t, "done")
    /\ UNCHANGED <<sess, setlog, lastReset>>

\* get_srv raised: nothing in reset_context catches it
ResetNoSession(t) ==
    /\ pc[t] = "raise"
    /\ fr[t].op = "reset_context"
    /\ CanRun(t)
    /\ fr' = [fr EXCEPT ![t].resp = Error500]
    /\ Go(t, "done")
    /\ UNCHANGED <<sess, ctx, setlog, lastReset>>

\* -------------------------------------------------------------- delete_var
\* `if name and name in GLOBAL_CONTEXT`: None is falsy
NameTruthy(name) == name # NoneName /\ name # ""

DeleteVar(t, names) ==
    /\ pc[t] = "json"
    /\ fr[t].op = "delete_var"
    /\ CanRun(t)
    /\ \E name \in names :
        /\ ctx' = IF NameTruthy(name) /\ name \in DOMAIN ctx THEN Del(ctx, name) ELSE ctx
        /\ fr' = [fr EXCEPT ![t].resp = Resp(200, "deleted", 0, <<>>, EmptyDict, name, NoVal)]
        /\ setlog' = setlog \ {name}
    /\ Go(t, "done")
    /\ UNCHANGED <<sess, lastReset>>

\* ----------------------------------------------------------------- set_var
\* a request body: name, value, type
SetReq(name, raw, vtype) == [name |-> name, raw |-> raw, vtype |-> vtype]

\* (variant) a set_var that stores the raw text under the name before it
\* converts it
SetVarStoresFirst(t, reqs) ==
    /\ pc[t] = "json"
    /\ fr[t].op = "set_var"
    /\ CanRun(t)
    /\ \E q \in reqs :
         LET c == Coerce(q.raw, q.vtype)
         IN  IF c.ok
             THEN /\ ctx' = Put(ctx, q.name, c.val)
                  /\ fr' = [fr EXCEPT ![t].req = q,
                                      ![t].resp = Resp(200, "set", 0, <<>>, EmptyDict, q.name, c.val)]
                  /\ setlog' = setlog \cup {q.name}
             ELSE /\ ctx' = Put(ctx, q.name, StrVal(q.raw))
                  /\ fr' = [fr EXCEPT ![t].req = q, ![t].resp = Error500]
                  /\ UNCHANGED setlog
    /\ Go(t, "done")
    /\ UNCHANGED <<sess, lastReset>>

\* When the conversion raises, the except block calls
\* JSONResponse(..., status=400); JSONResponse takes status_code, so the call
\* raises TypeError and all_exceptions_handler answers.
SetVar(t, reqs) ==
    /\ pc[t] = "json"
    /\ fr[t].op = "set_var"
    /\ CanRun(t)
    /\ \E q \in reqs :
         LET c == Coerce(q.raw, q.vtype)
         IN  IF c.ok
             THEN /\ ctx' = Put(ctx, q.name, c.val)
                  /\ fr' = [fr EXCEPT ![t].req = q,
                                      ![t].resp = Resp(200, "set", 0, <<>>, EmptyDict, q.name, c.val)]
                  /\ setlog' = setlog \cup {q.name}
             ELSE /\ fr' = [fr EXCEPT ![t].req = q, ![t].resp = Error500]
                  /\ UNCHANGED <<ctx, setlog>>
    /\ Go(t, "done")
    /\ UNCHANGED <<sess, lastReset>>

\* ---------------------------------------------------------------- shutdown
\* The server stops once the requests in flight are answered.  The module
\* registers no shutdown handler, lifespan or atexit function, so nothing of
\* the program runs: the session object and the mapping are left as they are.
Shutdown ==
    /\ \A t \in Tasks : pc[t] = "idle"
    /\ pc' = [t \in Tasks |-> "stopped"]
    /\ running' = 0
    /\ UNCHANGED <<sess, ctx, fr, setlog, lastReset>>

\* ------------------------------------------------------------------ inputs
SnipX == <<Assign("x", I1)>>
SnipY == <<Incr("y", "x")>>
SnipDiv == <<Raise("ZeroDivisionError")>>
SnipZ == <<Assign("z", I99)>>
SnipPart == <<Echo, Assign("z", I99), Raise("ValueError")>>
SnipBad == <<Assign("y", BadVal)>>
SnipExit == <<Raise("SystemExit")>>

Snippets == {SnipX, SnipY, SnipDiv, SnipZ, SnipPart, SnipBad, SnipExit}
FewSnippets == {SnipX, SnipDiv}

Raws == {<<"1">>, <<"a", "b", "c">>, <<"Y", "E", "S">>}
Kinds == {"int", "float", "bool", "str"}
SetReqs ==
    {SetReq("x", raw, k) : raw \in Raws, k \in Kinds}
        \cup {SetReq(n, raw, "int") : n \in {"gap", NoneName}, raw \in {<<"1">>, <<"a", "b", "c">>}}

DelNames == {"x", "y", "gap", "srv", NoneName}

Outcomes == {"ok", "fail"}

\* requests and code that write the reserved name srv
SnipSrv == <<Assign("srv", I1)>>
SrvReqs == {SetReq("srv", <<"1">>, "int")}
SrvNames == {"srv"}

\* texts around the two preview limits
LongText(n) == [i \in 1..n |-> "a"]
PreviewLens == {RunPreviewLimit, RunPreviewLimit + 1, PreviewLimit, PreviewLimit + 1}
PreviewReqs == {SetReq("s", LongText(n), "str") : n \in PreviewLens}
SnipLong == <<Assign("w", StrVal(LongText(PreviewLimit + 1)))>>

\* ---------------------------------------------------------- specifications
\* the handlers that use the session, and list_variables
Next ==
    \E t \in Tasks :
        \/ Arrive(t, {"run_cell", "run_all", "reset_context", "list_variables"})
        \/ Finish(t)
        \/ GsTry(t, Outcomes)
        \/ GsEnter(t, Outcomes)
        \/ GsExcept(t)
        \/ GsRecon(t, Outcomes)
        \/ GsReenter(t, Outcomes)
        \/ RunJson(t)
        \/ RunInstall(t)
        \/ RunNoSession(t)
        \/ RunExec(t, FewSnippets)
        \/ RunAllEnd(t)
        \/ RunSnapshot(t)
        \/ ListVariables(t)
        \/ ResetClear(t)
        \/ ResetUpdate(t)
        \/ ResetNoSession(t)

Spec == Init /\ [][Next]_vars

\* run_cell, run_all and list_variables with a session that stays reachable
NextEval ==
    \E t \in Tasks :
        \/ Arrive(t, {"run_cell", "run_all", "list_variables"})
        \/ Finish(t)
        \/ GsTry(t, {"ok"})
        \/ GsEnter(t, {"ok"})
        \/ RunJson(t)
        \/ RunInstall(t)
        \/ RunExec(t, Snippets)
        \/ RunAllEnd(t)
        \/ RunSnapshot(t)
        \/ ListVariables(t)

SpecEval == Init /\ [][NextEval]_vars

\* set_var, delete_var and list_variables
NextVars ==
    \E t \in Tasks :
        \/ Arrive(t, {"set_var", "delete_var", "list_variables"})
        \/ Finish(t)
        \/ SetVar(t, SetReqs)
        \/ DeleteVar(t, DelNames)
        \/ ListVariables(t)

SpecVars == Init /\ [][NextVars]_vars

\* set_var, run_cell and list_variables on values with long str() texts, with
\* a session that stays reachable
NextPreview ==
    \E t \in Tasks :
        \/ Arrive(t, {"run_cell", "set_var", "list_variables"})
        \/ Finish(t)
        \/ GsTry(t, {"ok"})
        \/ GsEnter(t, {"ok"})
        \/ RunJson(t)
        \/ RunInstall(t)
        \/ RunExec(t, {SnipX, SnipLong})
        \/ RunSnapshot(t)
        \/ SetVar(t, PreviewReqs)
        \/ ListVariables(t)

SpecPreview == Init /\ [][NextPreview]_vars

\* run_cell requests, the session failing or not, until the process stops
NextShutdown ==
    \/ \E t \in Tasks :
          \/ Arrive(t, {"run_cell"})
          \/ Finish(t)
          \/ GsTry(t, Outcomes)
          \/ GsEnter(t, Outcomes)
          \/ GsExcept(t)
          \/ GsRecon(t, Outcomes)
          \/ GsReenter(t, Outcomes)
          \/ RunJson(t)
          \/ RunInstall(t)
          \/ RunNoSession(t)
          \/ RunExec(t, FewSnippets)
          \/ RunSnapshot(t)
    \/ Shutdown

SpecShutdown == Init /\ [][NextShutdown]_vars

\* run_cell and run_all, the session failing or not, among set_var and
\* delete_var requests that overwrite and delete srv
NextSrv ==
    \E t \in Tasks :
        \/ Arrive(t, {"run_cell", "run_all", "set_var", "delete_var"})
        \/ Finish(t)
        \/ GsTry(t, Outcomes)
        \/ GsEnter(t, Outcomes)
        \/ GsExcept(t)
        \/ GsRecon(t, Outcomes)
        \/ GsReenter(t, Outcomes)
        \/ RunJson(t)
        \/ RunInstall(t)
        \/ RunNoSession(t)
        \/ RunExec(t, {SnipSrv, SnipDiv})
        \/ RunAllEnd(t)
        \/ RunSnapshot(t)
        \/ SetVar(t, SrvReqs)
        \/ DeleteVar(t, SrvNames)

SpecSrv == Init /\ [][NextSrv]_vars

\* =================================================================== claims
\* the Session Manager's state of the design: NoHandle, Healthy, or Broken
\* when _srv_instance is an object whose probe or connection step has failed
ManagerState ==
    IF srv_instance = 0 THEN "NoHandle"
    ELSE IF srv_instance \in probeFailed \cup enterFailed THEN "Broken"
    ELSE "Healthy"

\* C1: after every call of get_srv, whether it returns or raises, the manager
\* is Healthy or NoHandle: it never keeps an object whose probe or whose
\* connection step failed.
C1_NeverLeftBroken ==
    \A t \in Tasks : pc[t] \in {"return", "raise"} => ManagerState # "Broken"

\* C2: get_srv never returns an object whose liveness probe has failed (after
\* a failed call the next call constructs from scratch).
C2_FailedNeverReturned ==
    \A t \in Tasks : pc[t] = "return" => srv_instance \notin probeFailed

\* C3: when the manager holds an object and its probe passes, get_srv goes to
\* its return statement without a close and without a construction, and the
\* object it returns is the one it probed.
C3_HealthyKept ==
    [][\A t \in Tasks :
          /\ (pc[t] = "get_srv" /\ fr'[t].seen # 0) =>
                /\ pc'[t] = "return"
                /\ fr'[t].seen = srv_instance
                /\ UNCHANGED <<srv_instance, handles, closed, reconLog>>
          /\ (pc[t] = "return" /\ fr[t].seen # 0) => srv_instance = fr[t].seen
      ]_vars

\* a request is at get_srv's return statement after a passing probe, with
\* another request suspended meanwhile
C3_Witness ==
    \E t, u \in Tasks :
        /\ t # u
        /\ pc[t] = "return" /\ fr[t].seen # 0 /\ fr[t].seen = srv_instance
        /\ pc[u] = "json"

\* every object that was constructed and is not the manager's has had close()
\* called on it
NoLeak == \A h \in 1..handles : h # srv_instance => h \in closed

\* no broken object has been replaced twice
NoDoubleReconstruct ==
    \A i, j \in 1..Len(reconLog) : i # j => reconLog[i] # reconLog[j]

MidReset(t) ==
    /\ fr[t].op = "reset_context"
    /\ pc[t] \in {"get_srv", "enter", "except", "recon", "reenter", "return", "raise"}

\* a step of an evaluation: installing srv, executing a snippet, taking the
\* snapshot
EvalStep(u) ==
    /\ fr[u].op \in RunOps
    /\ pc[u] \in {"return", "raise", "exec", "snapshot"}
    /\ (pc'[u] # pc[u] \/ fr'[u] # fr[u])

\* C5: no step of a run_cell / run_all evaluation happens between
\* reset_context's clear() and its update().
C5_ResetSerialized ==
    [][\A t, u \in Tasks : (t # u /\ MidReset(t)) => ~EvalStep(u)]_vars

\* a reset is between clear() and update() while a run request is in flight
C5_Witness ==
    \E t, u \in Tasks :
        /\ t # u
        /\ MidReset(t) /\ ctx = EmptyDict /\ "x" \in fr[t].before
        /\ pc[u] = "json" /\ fr[u].op \in RunOps

\* a run_cell / run_all request has its outcome and its code raised `kind`
RaisedAtDone(t) == pc[t] = "done" /\ fr[t].op \in RunOps /\ fr[t].exc # ""

\* the normal result of a run whose code raised: status 200, the output
\* written so far, and the one line `<ErrorKind>: <message>` in stderr
NormalResultWithError(t) ==
    /\ fr[t].resp.status = 200
    /\ fr[t].resp.kind = "run"
    /\ fr[t].resp.stdout = fr[t].out
    /\ fr[t].resp.stderr = <<fr[t].exc>>

\* C6: whatever the submitted code raises, run_cell and run_all return their
\* normal result with the error's line appended to stderr; the error never
\* becomes a failure of the request.
C6_ErrorsSwallowed ==
    \A t \in Tasks : RaisedAtDone(t) => NormalResultWithError(t)

\* C7: in run_all, when snippet i raises, every binding assigned before the
\* failure point is in the mapping, no later snippet of the call is executed,
\* and the result carries the accumulated output and the error line.
C7_BatchAbortsKeepsBindings ==
    [][\A t \in Tasks :
          fr[t].op = "run_all" =>
            /\ (pc[t] = "exec" /\ fr'[t].exc # "") =>
                  \A n \in DOMAIN fr'[t].asg : n \in DOMAIN ctx' /\ ctx'[n] = fr'[t].asg[n]
            /\ (fr[t].exc # "" /\ pc'[t] # "idle") =>
                  /\ fr'[t].cells = fr[t].cells
                  /\ ctx' = ctx
            /\ (fr[t].exc # "" /\ pc'[t] = "done") =>
                  /\ fr'[t].resp.status = 200
                  /\ fr'[t].resp.kind = "run"
                  /\ fr'[t].resp.stdout = fr'[t].out
                  /\ fr'[t].resp.stderr = <<fr'[t].exc>>
      ]_vars

\* a delete_var request gets its response
DeleteStep(t) == pc[t] = "json" /\ fr[t].op = "delete_var" /\ pc'[t] = "done"

\* C8: delete_var removes the named binding only when it is a user binding:
\* for an absent or a reserved name the mapping is unchanged, and the response
\* always reports success with the requested name.
C8_DeleteOnlyUserBindings ==
    [][\A t \in Tasks :
          DeleteStep(t) =>
            /\ fr'[t].resp.status = 200
            /\ fr'[t].resp.kind = "deleted"
            /\ (fr'[t].resp.name \in Reserved \/ fr'[t].resp.name \notin DOMAIN ctx) => ctx' = ctx
            /\ \A k \in DOMAIN ctx : k # fr'[t].resp.name => (k \in DOMAIN ctx' /\ ctx'[k] = ctx[k])
      ]_vars

\* a reset_context request gets its outcome
ResetEnds(t) == fr[t].op = "reset_context" /\ pc[t] # "done" /\ pc'[t] = "done"

ListDone(t) == pc[t] = "done" /\ fr[t].op = "list_variables"

ResetFailed(t) == pc[t] = "done" /\ fr[t].op = "reset_context" /\ fr[t].resp.status = 500

\* C11: after a reset that fails because the session cannot be acquired, the
\* mapping still holds the reserved library bindings gap, resolve and
\* PetexServer; it is never left emptied.
C11_FailedResetKeepsLibrary ==
    \A t \in Tasks : ResetFailed(t) => {"gap", "resolve", "PetexServer"} \subseteq DOMAIN ctx

\* a set_var request gets its outcome
SetStep(t) == pc[t] = "json" /\ fr[t].op = "set_var" /\ pc'[t] = "done"

\* the conversion of the request's value to the requested kind raises
CoercionFails(q) == ~Coerce(q.raw, q.vtype).ok

\* C12: when set_var's conversion of the raw value fails, the mapping is left
\* exactly as it was: the name is not added and an existing binding of that
\* name keeps its value.
C12_FailedCoercionKeepsMapping ==
    [][\A t \in Tasks : (SetStep(t) /\ CoercionFails(fr'[t].req)) => ctx' = ctx]_vars

\* a set_var request for the bound name x has failed to convert its value
C12_Witness ==
    \E t \in Tasks :
        /\ pc[t] = "done" /\ fr[t].op = "set_var"
        /\ fr[t].req.name = "x" /\ CoercionFails(fr[t].req)
        /\ "x" \in DOMAIN ctx /\ ctx["x"] = I1

\* a set_var request has its outcome
SetDone(t) == pc[t] = "done" /\ fr[t].op = "set_var"

\* the two outcomes the interface gives set_var: {status, name, value}, or the
\* structured error {status: "error", msg}
StructuredSetOutcome(r) ==
    \/ r.status = 200 /\ r.kind = "set"
    \/ r.status = 400 /\ r.kind = "seterror"

\* C13: the outcome of set_var is always {status, name, value} or the
\* structured error {status: "error", msg}; a failed conversion is never
\* answered as a generic failure of the request.
C13_SetOutcomeStructured ==
    \A t \in Tasks : SetDone(t) => StructuredSetOutcome(fr[t].resp)

\* a run_cell / run_all request has its outcome after get_srv raised: none of
\* its code ran and the line in stderr_buf is get_srv's
NoSessionAtDone(t) ==
    /\ pc[t] = "done" /\ fr[t].op \in RunOps
    /\ fr[t].cells = 0 /\ fr[t].exc = "" /\ fr[t].err # <<>>

\* C14: when the session cannot be acquired for run_cell / run_all, the
\* request fails with a structured failure; the caller does not receive a
\* normal run result.
C14_NoSessionFailsRequest ==
    \A t \in Tasks :
        NoSessionAtDone(t) => ~(fr[t].resp.status = 200 /\ fr[t].resp.kind = "run")

\* a request that answers with a snapshot of the user bindings has its
\* outcome: list_variables, or a run whose code raised nothing that escaped
\* the handler
SnapshotDone(t) ==
    /\ pc[t] = "done"
    /\ fr[t].op \in RunOps \cup {"list_variables"}
    /\ fr[t].resp # Aborted

\* C15: in list_variables and in the variables field of run_cell / run_all, a
\* binding whose preview cannot be rendered is listed with type "unknown"
\* and an empty preview, and the snapshot as a whole never fails.
C15_SnapshotNeverFails ==
    \A t \in Tasks :
        SnapshotDone(t) =>
            /\ fr[t].resp.status = 200
            /\ \A k \in UserKeys(ctx) :
                  StrRaises(ctx[k]) =>
                      /\ k \in DOMAIN fr[t].resp.variables
                      /\ fr[t].resp.variables[k] = [type |-> "unknown", preview |-> <<>>]

\* the preview the design gives a str() text: the text in full up to 80
\* characters, its first 77 characters and "..." beyond
ClaimedPreview(s) ==
    IF Len(s) <= PreviewLimit THEN s ELSE SubSeq(s, 1, PreviewKeep) \o <<".", ".", ".">>

\* C16: every snapshot of the user bindings (list_variables, and the variables
\* field of run_cell / run_all) lists a value of at most 80 characters in
\* full and a longer one as its first 77 characters and "..."; for the same
\* mapping the variables field of a run equals the map of list_variables.
C16_OnePreviewRule ==
    \A t \in Tasks :
        (SnapshotDone(t) /\ fr[t].resp.status = 200) =>
            /\ \A k \in DOMAIN fr[t].resp.variables :
                  ~StrRaises(ctx[k]) =>
                      fr[t].resp.variables[k].preview = ClaimedPreview(ctx[k].repr)
            /\ fr[t].op \in RunOps => fr[t].resp.variables = ListVars(ctx)

\* C17: every key of the shared mapping is a str in every reachable state, so
\* list_variables (and the snapshot after an evaluation) succeeds in every
\* reachable state.
C17_KeysAreStrings ==
    /\ \A k \in DOMAIN ctx : IsStrKey(k)
    /\ \A t \in Tasks : ListDone(t) => fr[t].resp.status = 200

\* C18: reset_context is idempotent on the mapping: a reset performed right
\* after a reset leaves the same set of bindings as the first one left.
C18_ResetIdempotent ==
    [][\A t \in Tasks :
          (ResetEnds(t) /\ lastReset.is) => DOMAIN ctx' = lastReset.keys
      ]_vars

\* the process has shut down
Stopped == \A t \in Tasks : pc[t] = "stopped"

\* C19: at process shutdown the Session Manager's release() has closed the
\* current object, if there was one, and returned the manager to NoHandle.
C19_ReleasedAtShutdown ==
    Stopped =>
        /\ ManagerState = "NoHandle"
        /\ \A h \in 1..handles : h \in closed

\* positions inside get_srv
InGetSrv(t) == pc[t] \in {"get_srv", "enter", "except", "recon", "reenter"}

\* get_srv has raised in this run request
AcquireFailed(t) ==
    \/ pc[t] = "raise"
    \/ pc[t] \in {"snapshot", "done"} /\ fr[t].cells = 0 /\ fr[t].exc = "" /\ fr[t].err # <<>>

\* C20: in run_cell / run_all the submitted code is executed only after
\* get_srv has returned in the same request, and when execution starts srv is
\* bound to the object get_srv returned (the manager's current one) whatever
\* srv was bound to before; when get_srv raises, none of the code runs and
\* the mapping does not change.
C20_ExecAfterAcquire ==
    [][\A t \in Tasks :
          fr[t].op \in RunOps =>
            /\ fr'[t].cells > fr[t].cells => pc[t] = "exec"
            /\ (pc[t] # "exec" /\ pc'[t] = "exec") =>
                  /\ pc[t] = "return"
                  /\ srv_instance # 0
                  /\ "srv" \in DOMAIN ctx'
                  /\ ctx'["srv"] = HandleVal(srv_instance)
            /\ (pc[t] = "exec" /\ fr[t].cells = 0 /\ fr'[t].cells = 1) =>
                  /\ "srv" \in DOMAIN ctx
                  /\ ctx["srv"] = HandleVal(srv_instance)
            /\ (InGetSrv(t) \/ (AcquireFailed(t) /\ pc'[t] # "idle")) =>
                  /\ fr'[t].cells = 0
                  /\ ctx' = ctx
      ]_vars

\* execution is about to start on a reconnected session while set_var had
\* overwritten srv
C20_Witness ==
    \E t \in Tasks :
        /\ pc[t] = "exec" /\ fr[t].op \in RunOps /\ fr[t].cells = 0
        /\ "srv" \in setlog
        /\ Len(reconLog) > 0 /\ srv_instance = MaxHandles
        /\ ctx["srv"] = HandleVal(srv_instance)

\* a run request whose get_srv raised has been answered while the mapping
\* held a user binding
C20_WitnessFailed ==
    \E t \in Tasks :
        /\ pc[t] = "done" /\ fr[t].op \in RunOps /\ AcquireFailed(t)
        /\ "srv" \in setlog

====
